---- MODULE Spec2Model ----
(***************************************************************************)
(* Model of ReportedPostsBot (src/index.js): the login retry loop, the     *)
(* interval-driven poll ticks with their two await points, the dedup       *)
(* cache, the container lookup, formatting and chunked dispatch to the     *)
(* webhook, and the cache save.                                            *)
(*                                                                         *)
(* JavaScript runs each synchronous segment to completion, so one action   *)
(* is one segment between two awaits (or a timer / promise callback).      *)
(***************************************************************************)
EXTENDS Integers, Sequences, FiniteSets, TLC

\* ---------------------------------------------------------------- bounds
MaxTicks == 2        \* poll() invocations in one process lifetime
MaxLogins == 3       \* fandomLogin() invocations in one process lifetime
MaxFetch == 12       \* length of the longest fetch response
MaxText == 3         \* length of the longest text handed to trimEllip
MaxLength == 3       \* largest maximum length handed to trimEllip
MaxBlocks == 3       \* blocks of the longest ADF document handed to adfToText

\* ------------------------------------------------------ program constants
ChunkSize == 10          \* embeds per webhook.send call
BackoffMs == 10000       \* delay before a login retry
IntervalMs == 30000      \* config.interval with INTERVAL unset
FetchLimit == 100        \* limit parameter of getReportedPosts
AuthRejected == 403      \* status that makes poll() log in again

VARIABLES
    alive,           \* the node process is running
    devMode,         \* config.devMode
    disk,            \* cache.json: [present, ids]
    cache,           \* this.cache
    containerCache,  \* this.containerCache: [defined, articleNames, userIds]
    cookieJar,       \* login invocation whose access_token is in the jar, 0 if none
    interval,        \* period of the installed setInterval timer, 0 if none
    runPc,           \* position of the program: "new" (before the constructor),
                     \* "exited", "constructed", "awaitLogin" or "started"
    logins,          \* one record per fandomLogin() invocation
    ticks,           \* one record per poll() invocation
    sends,           \* one record per webhook.send() call
    config,          \* this.config: which required settings are set
    pure             \* a call of one of the text utilities: [fn, done, ...]

vars == <<alive, devMode, disk, cache, containerCache, cookieJar, interval,
          runPc, logins, ticks, sends, config, pure>>

\* ------------------------------------------------------------- utilities
Min(a, b) == IF a < b THEN a ELSE b

Range(s) == {s[i] : i \in 1..Len(s)}

Reverse(s) == [i \in 1..Len(s) |-> s[Len(s) + 1 - i]]

RECURSIVE Concat(_)
Concat(ss) == IF ss = <<>> THEN <<>> ELSE Head(ss) \o Concat(Tail(ss))

\* ---------------------------------------------------------------- errors
\* An error as the catch blocks see it: got's HTTPError and ParseError carry
\* err.response, got's RequestError and a TypeError do not.
HttpError(code) == [kind |-> "http", hasResponse |-> TRUE, statusCode |-> code]
ParseError == [kind |-> "parse", hasResponse |-> TRUE, statusCode |-> 200]
NetworkError == [kind |-> "network", hasResponse |-> FALSE, statusCode |-> 0]
TypeError == [kind |-> "type", hasResponse |-> FALSE, statusCode |-> 0]
NoError == [kind |-> "none", hasResponse |-> FALSE, statusCode |-> 0]

\* Failures of the login POST or of the who-am-I call.
LoginErrors == {HttpError(401), NetworkError, ParseError, TypeError}

\* Failures of the two requests poll() awaits.
RequestErrors == {HttpError(AuthRejected), HttpError(500), NetworkError}

\* ----------------------------------------------------------------- posts
ContainerTypeOf(id) ==
    IF id % 6 = 1 THEN "ARTICLE_COMMENT"
    ELSE IF id % 6 = 4 THEN "WALL"
    ELSE "FORUM"

\* A post of the getReportedPosts response, reduced to the fields poll() and
\* generateEmbed() branch on.
Post(id, deleted) ==
    [id |-> id, isDeleted |-> deleted,
     containerType |-> ContainerTypeOf(id), containerId |-> id]

WallUser(containerId) == containerId + 100

Window(lo, n) == [i \in 1..n |-> lo + i - 1]

Posts(idSeq, del) == [i \in 1..Len(idSeq) |-> Post(idSeq[i], idSeq[i] \in del)]

WallContainers(idSeq) ==
    SelectSeq(idSeq, LAMBDA id : ContainerTypeOf(id) = "WALL")

WallOwnerList(cs) ==
    [i \in 1..Len(cs) |-> [wallContainerId |-> cs[i], userId |-> WallUser(cs[i])]]

\* _embedded.wallOwners with an entry for every wall of the response.
AllOwners(idSeq) == [present |-> TRUE, list |-> WallOwnerList(WallContainers(idSeq))]

\* _embedded.wallOwners lacking the entry of the response's last wall.
SomeOwners(idSeq) ==
    LET cs == WallContainers(idSeq)
    IN  [present |-> TRUE,
         list |-> WallOwnerList(IF cs = <<>> THEN cs ELSE SubSeq(cs, 1, Len(cs) - 1))]

\* _embedded.wallOwners absent.
NoOwners == [present |-> FALSE, list |-> <<>>]

Response(idSeq, del, owners) == [posts |-> Posts(idSeq, del), wallOwners |-> owners]

\* The longest response: ids 1..MaxFetch, the first id listed once more.
Long == Window(1, MaxFetch) \o <<1>>

\* The getReportedPosts answers the model draws from.
Responses ==
    { Response(Window(5, 2), {}, NoOwners),
      Response(Window(6, 2), {}, NoOwners),
      Response(<<6, 7, 4>>, {6, 4}, AllOwners(<<6, 7, 4>>)),
      Response(Long, {}, AllOwners(Long)),
      Response(Long, {2, 7}, NoOwners),
      Response(Long, {}, SomeOwners(Long)) }

\* ------------------------------------------------- FILTER (lines 215-248)
\* Line 216 without the cache test.
SurvivesIgnoringCache(post, c) == ~post.isDeleted

\* Line 216 without the isDeleted test.
SurvivesIgnoringDeleted(post, c) == post.id \notin c

\* Line 216: the post is new and not deleted.
Survives(post, c) == post.id \notin c /\ ~post.isDeleted

\* Array.prototype.find over wallOwners (line 243): index of the first entry
\* for the container, 0 when find returns undefined.
FindWall(list, containerId) ==
    LET hits == {i \in 1..Len(list) : list[i].wallContainerId = containerId}
    IN  IF hits = {} THEN 0 ELSE CHOOSE i \in hits : \A j \in hits : i <= j

\* wallOwnerId 0 stands for undefined (wallOwners absent: ?. short-circuits).
MakeData(post, ownerId) ==
    [postId |-> post.id, containerType |-> post.containerType,
     containerId |-> post.containerId, wallOwnerId |-> ownerId]

\* Lines 217-246 with cache.add moved behind the wall-owner lookup: a post
\* whose lookup throws is not marked.
CollectPostMarkLast(post, wallOwners, acc) ==
    LET marked == [acc EXCEPT !.cache = @ \cup {post.id}]
        hit == FindWall(wallOwners.list, post.containerId)
    IN  IF post.containerType = "ARTICLE_COMMENT"
        THEN [marked EXCEPT !.pageIds = @ \cup {post.containerId},
                            !.embeds = Append(@, MakeData(post, 0))]
        ELSE IF post.containerType = "WALL"
        THEN IF ~wallOwners.present
             THEN [marked EXCEPT !.userIds = @ \cup {0},
                                 !.embeds = Append(@, MakeData(post, 0))]
             ELSE IF hit = 0
             THEN [acc EXCEPT !.threw = TRUE]
             ELSE [marked EXCEPT
                     !.userIds = @ \cup {wallOwners.list[hit].userId},
                     !.embeds = Append(@, MakeData(post, wallOwners.list[hit].userId))]
        ELSE [marked EXCEPT !.embeds = Append(@, MakeData(post, 0))]

\* Lines 217-246 for one surviving post. acc is the loop's state:
\* [cache, embeds, pageIds, userIds, threw].
CollectPost(post, wallOwners, acc) ==
    LET marked == [acc EXCEPT !.cache = @ \cup {post.id}]
        hit == FindWall(wallOwners.list, post.containerId)
    IN  IF post.containerType = "ARTICLE_COMMENT"
        THEN [marked EXCEPT !.pageIds = @ \cup {post.containerId},
                            !.embeds = Append(@, MakeData(post, 0))]
        ELSE IF post.containerType = "WALL"
        THEN IF ~wallOwners.present
             THEN [marked EXCEPT !.userIds = @ \cup {0},
                                 !.embeds = Append(@, MakeData(post, 0))]
             ELSE IF hit = 0
             THEN [marked EXCEPT !.threw = TRUE]
             ELSE [marked EXCEPT
                     !.userIds = @ \cup {wallOwners.list[hit].userId},
                     !.embeds = Append(@, MakeData(post, wallOwners.list[hit].userId))]
        ELSE [marked EXCEPT !.embeds = Append(@, MakeData(post, 0))]

RECURSIVE FilterFrom(_, _, _, _)
FilterFrom(posts, wallOwners, i, acc) ==
    IF acc.threw \/ i > Len(posts) THEN acc
    ELSE IF Survives(posts[i], acc.cache)
    THEN FilterFrom(posts, wallOwners, i + 1, CollectPost(posts[i], wallOwners, acc))
    ELSE FilterFrom(posts, wallOwners, i + 1, acc)

Filter(response, c) ==
    FilterFrom(response.posts, response.wallOwners, 1,
               [cache |-> c, embeds |-> <<>>, pageIds |-> {}, userIds |-> {},
                threw |-> FALSE])

\* ------------------------------------- RESOLVE_CONTAINERS (lines 251-258)
\* Answers of getArticleNamesAndUsernames: every requested id resolved, or
\* all but one page. The id 0 (the string "undefined") is never resolved.
NoIndex == [defined |-> FALSE, articleNames |-> {}, userIds |-> {}]

\* Line 251 testing whether either set has a member.
IssuesLookupIfNonEmpty(pageIds, userIds) == pageIds # {} \/ userIds # {}

\* Line 251: if (pageIds || userIds). Both are Set objects, which are truthy
\* also when empty.
IssuesLookup(pageIds, userIds) == TRUE

\* Array.from(set).join(','), lines 255-256: undefined (0) joins as the
\* empty string and so names no id.
JoinIds(ids) == ids \ {0}

\* The searchParams of the lookup request, lines 252-257.
Request(pageIds, userIds) ==
    [stablePageIds |-> JoinIds(pageIds), userIds |-> JoinIds(userIds)]

NoRequest == [stablePageIds |-> {}, userIds |-> {}]

\* generateEmbed reading the index as it was before line 251 assigned it.
ReadStaleContainerCache(assigned, before) == before

\* this.containerCache as generateEmbed and getPostUrl read it right after
\* the assignment of line 251, in the same synchronous segment.
ReadContainerCache(assigned, before) == assigned

FullIndex(pageIds, userIds) ==
    [defined |-> TRUE, articleNames |-> pageIds, userIds |-> userIds \ {0}]

LookupAnswers(pageIds, userIds) ==
    {FullIndex(pageIds, userIds)}
        \cup {FullIndex(pageIds \ {x}, userIds) : x \in pageIds}

\* ------------------------------------- FORMAT / DISPATCH (lines 261-270)
\* generateEmbed returns normally: getPostUrl and the footer switch read
\* containerCache.articleNames[containerId] / userIds[wallOwnerId] unguarded.
CanFormat(data, cc) ==
    IF data.containerType = "ARTICLE_COMMENT"
    THEN cc.defined /\ data.containerId \in cc.articleNames
    ELSE IF data.containerType = "WALL"
    THEN cc.defined /\ data.wallOwnerId \in cc.userIds
    ELSE TRUE

\* The embed generateEmbed builds for a post.
Embed(data) == data.postId

\* Line 263 left out.
KeepFetchOrder(embeds) == embeds

\* Line 263: embeds.reverse().
NewestLast(embeds) == Reverse(embeds)

\* Line 265 with Math.floor in place of Math.ceil.
ChunkListFloor(embeds) ==
    [i \in 1..(Len(embeds) \div ChunkSize) |->
        SubSeq(embeds, (i - 1) * ChunkSize + 1, Min(i * ChunkSize, Len(embeds)))]

\* Line 265: arrays of ChunkSize or fewer items.
ChunkList(embeds) ==
    [i \in 1..((Len(embeds) + ChunkSize - 1) \div ChunkSize) |->
        SubSeq(embeds, (i - 1) * ChunkSize + 1, Min(i * ChunkSize, Len(embeds)))]

\* list.map(data => this.generateEmbed(data)), line 268: the posts handed to
\* generateEmbed, up to and including the first one that throws.
FormatChunk(list, cc) ==
    LET bad == {i \in 1..Len(list) : ~CanFormat(list[i], cc)}
        stop == IF bad = {} THEN Len(list)
                ELSE CHOOSE i \in bad : \A j \in bad : i <= j
    IN  [ok |-> bad = {},
         formatted |-> [i \in 1..stop |-> list[i].postId],
         embeds |-> [i \in 1..Len(list) |-> Embed(list[i])]]

\* The outer .map of lines 265-269: one webhook.send per chunk, in order,
\* until a chunk's formatting throws.
RECURSIVE DispatchFrom(_, _, _, _)
DispatchFrom(chunks, k, cc, acc) ==
    IF k > Len(chunks) THEN acc
    ELSE LET r == FormatChunk(chunks[k], cc)
         IN  IF r.ok
             THEN DispatchFrom(chunks, k + 1, cc,
                    [acc EXCEPT !.calls = Append(@, r.embeds),
                                !.formatted = @ \o r.formatted])
             ELSE [acc EXCEPT !.formatted = @ \o r.formatted, !.threw = TRUE]

\* Lines 261-270.
Dispatch(embeds, cc) ==
    IF Len(embeds) > 0
    THEN DispatchFrom(ChunkList(NewestLast(embeds)), 1, cc,
                      [calls |-> <<>>, formatted |-> <<>>, threw |-> FALSE])
    ELSE [calls |-> <<>>, formatted |-> <<>>, threw |-> FALSE]

\* --------------------------------------------- cache load / save
\* Constructor lines 74-82.
LoadCache(dm, d) == IF ~dm /\ d.present THEN d.ids ELSE {}

\* saveCache without the devMode guard of line 123.
SaveCacheAlways(dm, d, c) == [present |-> TRUE, ids |-> c]

\* saveCache, lines 122-124.
SaveCache(dm, d, c) == IF ~dm THEN [present |-> TRUE, ids |-> c] ELSE d

\* --------------------------------------------- catch of poll (272-275)
\* Line 273 testing for 401 instead of 403.
StartsLoginOn401(err) == err.hasResponse /\ err.statusCode = 401

\* Line 273 logging in again on every HTTP error.
StartsLoginOnAnyStatus(err) == err.hasResponse

\* Line 273: err.response?.statusCode === 403.
StartsLogin(err) == err.hasResponse /\ err.statusCode = AuthRejected

NewLogin(root, parent) ==
    [pc |-> "post", root |-> root, parent |-> parent, err |-> NoError, delay |-> 0]

\* A poll() invocation that has sent its getReportedPosts request. prior is
\* the number of ticks that had ended when this one began.
NewTick ==
    [pc |-> "fetch", prior |-> Cardinality({t \in 1..Len(ticks) : ticks[t].pc = "done"}),
     posts |-> <<>>, cacheBefore |-> {}, embeds |-> <<>>,
     pageIds |-> {}, userIds |-> {}, lookups |-> 0, resolved |-> FALSE,
     formatted |-> <<>>, caught |-> NoError, saved |-> FALSE, login |-> 0,
     wallOwners |-> NoOwners, requested |-> NoRequest,
     ownIndex |-> NoIndex, usedIndex |-> NoIndex]


\* The catch block of poll(): the tick record after it ran.
Caught(tick, err) ==
    [tick EXCEPT !.pc = "done", !.caught = err,
                 !.login = IF StartsLogin(err) THEN Len(logins) + 1 ELSE 0]

\* fandomLogin() is called, not awaited, when the catch block saw a 403.
LoginsAfterCatch(err) ==
    IF StartsLogin(err) THEN Append(logins, NewLogin("poll", 0)) ELSE logins

\* ---------------------------------------------- configuration (26-52)
\* The settings with no default: null in this.config when the variable is
\* unset.
ConfigKeys == {"webhookId", "webhookToken", "wiki", "username", "password"}

\* config[k] is TRUE when setting k has a value, FALSE when it is null.
Configs == [ConfigKeys -> BOOLEAN]

FullConfig == [k \in ConfigKeys |-> TRUE]

\* JavaScript values as Object.values, flat and includes see them.
Null == [t |-> "null", items |-> <<>>]
Primitive == [t |-> "primitive", items |-> <<>>]
Object(fields) == [t |-> "object", items |-> fields]
Array(items) == [t |-> "array", items |-> items]

Setting(cfg, k) == IF cfg[k] THEN Primitive ELSE Null

\* Object.values(this.config), lines 26-39: devMode, the webhook object, the
\* fandom object (domain has a default) and interval.
ObjectValues(cfg) ==
    << Primitive,
       Object(<<Setting(cfg, "webhookId"), Setting(cfg, "webhookToken")>>),
       Object(<<Setting(cfg, "wiki"), Primitive, Setting(cfg, "username"),
                Setting(cfg, "password")>>),
       Primitive >>

\* Array.prototype.flat(1): the items of nested arrays are spliced in;
\* objects are left as they are.
RECURSIVE Flat1(_)
Flat1(values) ==
    IF values = <<>> THEN <<>>
    ELSE (IF Head(values).t = "array" THEN Head(values).items ELSE <<Head(values)>>)
            \o Flat1(Tail(values))

\* Array.prototype.includes(null).
IncludesNull(values) == \E i \in 1..Len(values) : values[i].t = "null"

\* Line 49: Object.values(this.config).flat(1).includes(null).
MissingConfig(cfg) == IncludesNull(Flat1(ObjectValues(cfg)))

\* new WebhookClient({id, token}) (lines 55-58) returns (TRUE) or throws
\* (FALSE); with a null id or token either, depending on the library.
WebhookClientOutcomes(cfg) ==
    IF cfg["webhookId"] /\ cfg["webhookToken"] THEN {TRUE} ELSE {TRUE, FALSE}

\* getWikiUrl (lines 132-138) returns: interwiki.includes throws on null.
GetWikiUrlReturns(cfg) == cfg["wiki"]

\* Line 185: run() awaits its fandomLogin() call.
RunWithoutAwait == FALSE

RunAwaitsLogin == TRUE

\* No text utility is being called.
NoCall == [fn |-> "none", done |-> FALSE]

\* ------------------------------------------------------------------ Init
DiskInits == { [present |-> FALSE, ids |-> {}], [present |-> TRUE, ids |-> {6}] }

\* The state when run() waits for its fandomLogin() call: the constructor
\* has loaded the cache and the login POST is in flight.
Init ==
    /\ alive = TRUE
    /\ devMode \in BOOLEAN
    /\ disk \in DiskInits
    /\ cache = LoadCache(devMode, disk)
    /\ containerCache = NoIndex
    /\ cookieJar = 0
    /\ interval = 0
    /\ runPc = "awaitLogin"
    /\ logins = <<NewLogin("run", 0)>>
    /\ ticks = <<>>
    /\ sends = <<>>
    /\ config = FullConfig
    /\ pure = NoCall

\* ------------------------------------- startup (lines 25-83, 184-185, 382)
\* The state before `new ReportedPostsBot()`, for every combination of set
\* and unset required settings.
InitStartup ==
    /\ alive = TRUE
    /\ devMode \in BOOLEAN
    /\ disk \in DiskInits
    /\ cache = {}
    /\ containerCache = NoIndex
    /\ cookieJar = 0
    /\ interval = 0
    /\ runPc = "new"
    /\ logins = <<>>
    /\ ticks = <<>>
    /\ sends = <<>>
    /\ config \in Configs
    /\ pure = NoCall

\* The constructor. It throws (the process ends on the uncaught exception)
\* when the config check finds null, when WebhookClient throws or when
\* getWikiUrl throws; otherwise the cache is loaded.
Construct ==
    /\ alive
    /\ runPc = "new"
    /\ \E webhookOk \in WebhookClientOutcomes(config) :
          IF MissingConfig(config) \/ ~webhookOk \/ ~GetWikiUrlReturns(config)
          THEN /\ runPc' = "exited"
               /\ alive' = FALSE
               /\ cache' = cache
          ELSE /\ runPc' = "constructed"
               /\ alive' = alive
               /\ cache' = LoadCache(devMode, disk)
    /\ UNCHANGED <<config, pure, devMode, disk, containerCache, cookieJar,
                   interval, logins, ticks, sends>>

\* myBot.run() up to its await: fandomLogin() is called and its POST sent.
RunStart ==
    /\ alive
    /\ runPc = "constructed"
    /\ logins' = Append(logins, NewLogin("run", 0))
    /\ IF RunAwaitsLogin
       THEN /\ runPc' = "awaitLogin"
            /\ UNCHANGED <<ticks, interval>>
       ELSE /\ runPc' = "started"
            /\ ticks' = Append(ticks, NewTick)
            /\ interval' = IntervalMs
    /\ UNCHANGED <<config, pure, alive, devMode, disk, cache, containerCache,
                   cookieJar, sends>>

\* --------------------------------------------- fandomLogin (lines 89-117)
\* The login POST answered; the auth cookie is set and who-am-I is requested.
LoginPostOk(l) ==
    /\ alive
    /\ logins[l].pc = "post"
    /\ logins' = [logins EXCEPT ![l].pc = "whoami"]
    /\ cookieJar' = l
    /\ UNCHANGED <<config, pure, alive, devMode, disk, cache, containerCache, interval, runPc,
                   ticks, sends>>

\* The catch block of fandomLogin (lines 109-115). It reads err.response.body
\* first: an error without a response makes the catch block itself throw, the
\* executor's promise rejects unhandled, and no retry timer is set.
AfterLoginFailure(login, err) ==
    IF err.hasResponse
    THEN [login EXCEPT !.pc = "backoff", !.err = err, !.delay = BackoffMs]
    ELSE [login EXCEPT !.pc = "threw", !.err = err]

\* What an unhandled promise rejection does to the process: node warns and
\* goes on, or terminates, depending on its version and flags.
UnhandledRejectionOutcomes == {TRUE, FALSE}

LoginFails(l, err) ==
    /\ alive
    /\ logins[l].pc \in {"post", "whoami"}
    /\ logins' = [logins EXCEPT ![l] = AfterLoginFailure(@, err)]
    /\ IF err.hasResponse THEN alive' = alive
       ELSE alive' \in UnhandledRejectionOutcomes
    /\ UNCHANGED <<config, pure, devMode, disk, cache, containerCache, cookieJar, interval,
                   runPc, ticks, sends>>

\* The backoff timer fires (lines 111-114): the inner promise resolves and
\* fandomLogin() is called again. The promise of invocation l is never
\* settled.
LoginRetry(l) ==
    /\ alive
    /\ logins[l].pc = "backoff"
    /\ Len(logins) < MaxLogins
    /\ logins' = Append([logins EXCEPT ![l].pc = "pending"],
                        NewLogin(logins[l].root, l))
    /\ UNCHANGED <<config, pure, alive, devMode, disk, cache, containerCache, cookieJar,
                   interval, runPc, ticks, sends>>

\* run() awaits the promise of the first fandomLogin() invocation only.
RunResumes(l) == l = 1 /\ runPc = "awaitLogin"

\* who-am-I answered: resolve(response) (line 108). When this is the promise
\* run() awaits, run() goes on: the first poll() and setInterval (187-191).
LoginWhoamiOk(l) ==
    /\ alive
    /\ logins[l].pc = "whoami"
    /\ logins' = [logins EXCEPT ![l].pc = "resolved"]
    /\ IF RunResumes(l)
       THEN /\ runPc' = "started"
            /\ ticks' = Append(ticks, NewTick)
            /\ interval' = IntervalMs
       ELSE UNCHANGED <<runPc, ticks, interval>>
    /\ UNCHANGED <<config, pure, alive, devMode, disk, cache, containerCache, cookieJar, sends>>

\* ------------------------------------------------- poll (lines 199-276)
\* The interval timer fires and calls poll(), whether or not earlier ticks
\* have finished.
TimerFire ==
    /\ alive
    /\ interval # 0
    /\ Len(ticks) < MaxTicks
    /\ ticks' = Append(ticks, NewTick)
    /\ UNCHANGED <<config, pure, alive, devMode, disk, cache, containerCache, cookieJar,
                   interval, runPc, logins, sends>>

NewSends(t, calls) ==
    [i \in 1..Len(calls) |-> [tick |-> t, embeds |-> calls[i], st |-> "submitted"]]

\* Lines 261-271 of tick t, formatting with the index cc while the cache is
\* c: the tick record, the webhook calls and the storage afterwards.
Deliver(t, tick, cc, c) ==
    LET d == Dispatch(tick.embeds, cc)
        formatted == [tick EXCEPT !.formatted = d.formatted, !.usedIndex = cc]
    IN  [tick |-> IF d.threw THEN Caught(formatted, TypeError)
                  ELSE [formatted EXCEPT !.pc = "done", !.saved = TRUE],
         sends |-> sends \o NewSends(t, d.calls),
         disk |-> IF d.threw THEN disk ELSE SaveCache(devMode, disk, c)]

\* getReportedPosts answered: FILTER runs and the container lookup is sent,
\* or the wall-owner dereference throws into the catch block.
FetchReturns(t, response) ==
    /\ alive
    /\ ticks[t].pc = "fetch"
    /\ LET f == Filter(response, cache)
           seen == [ticks[t] EXCEPT !.posts = response.posts,
                                    !.wallOwners = response.wallOwners,
                                    !.cacheBefore = cache,
                                    !.embeds = f.embeds,
                                    !.pageIds = f.pageIds,
                                    !.userIds = f.userIds]
           after == Deliver(t, seen, containerCache, f.cache)
       IN  /\ cache' = f.cache
           /\ IF f.threw
              THEN /\ ticks' = [ticks EXCEPT ![t] = Caught(seen, TypeError)]
                   /\ UNCHANGED <<sends, disk>>
              ELSE IF IssuesLookup(f.pageIds, f.userIds)
              THEN /\ ticks' = [ticks EXCEPT ![t] =
                                  [seen EXCEPT !.pc = "lookup", !.lookups = @ + 1,
                                               !.requested = Request(f.pageIds, f.userIds)]]
                   /\ UNCHANGED <<sends, disk>>
              ELSE /\ ticks' = [ticks EXCEPT ![t] = after.tick]
                   /\ sends' = after.sends
                   /\ disk' = after.disk
    /\ UNCHANGED <<config, pure, alive, devMode, containerCache, cookieJar, interval,
                   runPc, logins>>

\* One of the two awaited requests of poll() is rejected.
RequestFails(t, err) ==
    /\ alive
    /\ ticks[t].pc \in {"fetch", "lookup"}
    /\ StartsLogin(err) => Len(logins) < MaxLogins
    /\ ticks' = [ticks EXCEPT ![t] = Caught(@, err)]
    /\ logins' = LoginsAfterCatch(err)
    /\ UNCHANGED <<config, pure, alive, devMode, disk, cache, containerCache, cookieJar,
                   interval, runPc, sends>>

\* getArticleNamesAndUsernames answered: containerCache is assigned, then
\* FORMAT, DISPATCH and PERSIST run in the same synchronous segment.
LookupReturns(t, answer) ==
    /\ alive
    /\ ticks[t].pc = "lookup"
    /\ containerCache' = answer
    /\ LET resolved == [ticks[t] EXCEPT !.resolved = TRUE, !.ownIndex = answer]
           after == Deliver(t, resolved,
                            ReadContainerCache(answer, containerCache), cache)
       IN  /\ ticks' = [ticks EXCEPT ![t] = after.tick]
           /\ sends' = after.sends
           /\ disk' = after.disk
    /\ UNCHANGED <<config, pure, alive, devMode, cache, cookieJar, interval, runPc, logins>>

\* The promise of a webhook.send() call is rejected. poll() neither awaits
\* nor returns it, so this is an unhandled promise rejection. (A fulfilled
\* promise changes nothing: a send that is never rejected stays "submitted".)
SendRejected(i) ==
    /\ alive
    /\ sends[i].st = "submitted"
    /\ sends' = [sends EXCEPT ![i].st = "rejected"]
    /\ alive' \in UnhandledRejectionOutcomes
    /\ UNCHANGED <<config, pure, devMode, disk, cache, containerCache, cookieJar, interval,
                   runPc, logins, ticks>>

Next ==
    \/ \E l \in 1..Len(logins) : LoginPostOk(l)
    \/ \E l \in 1..Len(logins) : \E err \in LoginErrors : LoginFails(l, err)
    \/ \E l \in 1..Len(logins) : LoginRetry(l)
    \/ \E l \in 1..Len(logins) : LoginWhoamiOk(l)
    \/ TimerFire
    \/ \E t \in 1..Len(ticks) : \E r \in Responses : FetchReturns(t, r)
    \/ \E t \in 1..Len(ticks) : \E err \in RequestErrors : RequestFails(t, err)
    \/ \E t \in 1..Len(ticks) :
          \E a \in LookupAnswers(ticks[t].pageIds, ticks[t].userIds) :
              LookupReturns(t, a)
    \/ \E i \in 1..Len(sends) : SendRejected(i)

Spec == Init /\ [][Next]_vars

\* --------------------------------------------- text utilities (147-179)
\* Strings are sequences of characters.
Chars == {" ", "a", "b"}

Texts == UNION {[1..k -> Chars] : k \in 0..MaxText}

\* The default marker is the single character U+2026.
Ellipsis == <<"...">>

Markers == {Ellipsis, <<>>, <<".", ".", ".">>}

\* String.prototype.trim.
RECURSIVE TrimStart(_)
TrimStart(s) == IF s # <<>> /\ Head(s) = " " THEN TrimStart(Tail(s)) ELSE s

Trim(s) == Reverse(TrimStart(Reverse(TrimStart(s))))

\* String.prototype.substring: arguments below 0 count as 0, arguments
\* above the length as the length, and the smaller one is the start.
Clamp(n, len) == IF n < 0 THEN 0 ELSE Min(n, len)

Substring(s, start, end) ==
    LET a == Clamp(start, Len(s))
        b == Clamp(end, Len(s))
    IN  SubSeq(s, Min(a, b) + 1, IF a < b THEN b ELSE a)

\* Lines 147-152.
TrimEllip(text, length, elipsis) ==
    LET trimmed == Trim(text)
    IN  IF Len(trimmed) > length
        THEN Substring(trimmed, 0, length - Len(elipsis)) \o elipsis
        ELSE trimmed

\* ADF input of adfToText. A run is [hasText, text]; a block is
\* [type, hasContent, content]; the input is unparsable text, a document
\* without a block list, or a document with one.
Run(text) == [hasText |-> TRUE, text |-> text]
NoTextRun == [hasText |-> FALSE, text |-> <<>>]

Block(type, runs) == [type |-> type, hasContent |-> TRUE, content |-> runs]
BlockWithoutContent(type) == [type |-> type, hasContent |-> FALSE, content |-> <<>>]

Blocks ==
    { Block("paragraph", <<Run(<<"a">>)>>),
      Block("paragraph", <<Run(<<"b">>), NoTextRun, Run(<<"a", " ">>)>>),
      Block("paragraph", <<NoTextRun, Run(<<>>)>>),
      Block("paragraph", <<>>),
      BlockWithoutContent("paragraph"),
      Block("heading", <<Run(<<"b">>)>>),
      BlockWithoutContent("heading") }

Unparsable == [parses |-> FALSE, hasContent |-> FALSE, content |-> <<>>]
DocWithoutContent == [parses |-> TRUE, hasContent |-> FALSE, content |-> <<>>]
Doc(blocks) == [parses |-> TRUE, hasContent |-> TRUE, content |-> blocks]

Adfs ==
    {Unparsable, DocWithoutContent}
        \cup {Doc(bs) : bs \in UNION {[1..k -> Blocks] : k \in 0..MaxBlocks}}

\* Lines 167-171: the texts of a paragraph's runs that have one (an empty
\* text is falsy).
RECURSIVE ParagraphText(_)
ParagraphText(runs) ==
    IF runs = <<>> THEN <<>>
    ELSE (IF Head(runs).hasText /\ Head(runs).text # <<>>
          THEN Head(runs).text ELSE <<>>) \o ParagraphText(Tail(runs))

\* Lines 165-174, the loop over json.content from block i with plainText
\* accumulated so far; iterating a paragraph's missing content throws.
RECURSIVE AdfLoop(_, _, _)
AdfLoop(blocks, i, plainText) ==
    IF i > Len(blocks) THEN [threw |-> FALSE, plainText |-> plainText]
    ELSE IF blocks[i].type # "paragraph" THEN AdfLoop(blocks, i + 1, plainText)
    ELSE IF ~blocks[i].hasContent THEN [threw |-> TRUE, plainText |-> plainText]
    ELSE LET paragraphText == ParagraphText(blocks[i].content)
         IN  AdfLoop(blocks, i + 1,
                     IF paragraphText # <<>>
                     THEN plainText \o paragraphText \o <<"\n">>
                     ELSE plainText)

\* The try block, lines 162-176: JSON.parse throws on unparsable text and
\* for...of throws on a missing json.content.
AdfTry(adf) ==
    IF ~adf.parses \/ ~adf.hasContent THEN [threw |-> TRUE, plainText |-> <<>>]
    ELSE AdfLoop(adf.content, 1, <<>>)

\* adfToText with a catch block that resets plainText.
AdfToTextEmptyOnError(adf) ==
    [raised |-> FALSE, text |-> IF AdfTry(adf).threw THEN <<>> ELSE AdfTry(adf).plainText]

\* Lines 159-179: the empty catch swallows the exception and plainText, as
\* far as it was built, is returned.
AdfToText(adf) == [raised |-> FALSE, text |-> AdfTry(adf).plainText]

\* A call of one of the two utilities with its arguments.
TrimEllipCalls ==
    {[fn |-> "trimEllip", done |-> FALSE, text |-> text, length |-> length,
      elipsis |-> elipsis, result |-> <<>>] :
        text \in Texts, length \in 0..MaxLength, elipsis \in Markers}

AdfToTextCalls ==
    {[fn |-> "adfToText", done |-> FALSE, adf |-> adf, raised |-> FALSE,
      result |-> <<>>] : adf \in Adfs}

InitText ==
    /\ alive = TRUE
    /\ devMode = FALSE
    /\ disk = [present |-> FALSE, ids |-> {}]
    /\ cache = {}
    /\ containerCache = NoIndex
    /\ cookieJar = 0
    /\ interval = 0
    /\ runPc = "started"
    /\ logins = <<>>
    /\ ticks = <<>>
    /\ sends = <<>>
    /\ config = FullConfig
    /\ pure \in TrimEllipCalls \cup AdfToTextCalls

TrimEllipReturns ==
    /\ pure.fn = "trimEllip" /\ ~pure.done
    /\ pure' = [pure EXCEPT !.done = TRUE,
                            !.result = TrimEllip(pure.text, pure.length, pure.elipsis)]
    /\ UNCHANGED <<alive, devMode, disk, cache, containerCache, cookieJar,
                   interval, runPc, logins, ticks, sends, config>>

AdfToTextReturns ==
    /\ pure.fn = "adfToText" /\ ~pure.done
    /\ pure' = [pure EXCEPT !.done = TRUE,
                            !.raised = AdfToText(pure.adf).raised,
                            !.result = AdfToText(pure.adf).text]
    /\ UNCHANGED <<alive, devMode, disk, cache, containerCache, cookieJar,
                   interval, runPc, logins, ticks, sends, config>>

NextText == TrimEllipReturns \/ AdfToTextReturns

SpecText == InitText /\ [][NextText]_vars

\* Startup for every configuration: the constructor, run() and the login
\* loop up to the first poll tick.
NextStartup ==
    \/ Construct
    \/ RunStart
    \/ \E l \in 1..Len(logins) : LoginPostOk(l)
    \/ \E l \in 1..Len(logins) : \E err \in LoginErrors : LoginFails(l, err)
    \/ \E l \in 1..Len(logins) : LoginRetry(l)
    \/ \E l \in 1..Len(logins) : LoginWhoamiOk(l)

SpecStartup == InitStartup /\ [][NextStartup]_vars


\* --------------------------------------------------------------------------
\* Dispatch alone, for every number of surviving posts the fetch limit allows:
\* a tick that waits for its container lookup with n forum posts collected.
BatchData(n) == [i \in 1..n |-> MakeData(Post(3 * i, FALSE), 0)]

InitBatch ==
    /\ alive = TRUE
    /\ devMode \in BOOLEAN
    /\ disk = [present |-> FALSE, ids |-> {}]
    /\ containerCache = NoIndex
    /\ cookieJar = 1
    /\ interval = IntervalMs
    /\ runPc = "started"
    /\ logins = <<[NewLogin("run", 0) EXCEPT !.pc = "resolved"]>>
    /\ sends = <<>>
    /\ config = FullConfig
    /\ pure = NoCall
    /\ \E n \in 0..FetchLimit :
          /\ cache = {3 * i : i \in 1..n}
          /\ ticks = <<[pc |-> "lookup", prior |-> 0,
                        posts |-> [i \in 1..n |-> Post(3 * i, FALSE)],
                        cacheBefore |-> {}, embeds |-> BatchData(n),
                        pageIds |-> {}, userIds |-> {}, lookups |-> 1,
                        resolved |-> FALSE, formatted |-> <<>>,
                        caught |-> NoError, saved |-> FALSE, login |-> 0,
                        wallOwners |-> NoOwners, requested |-> Request({}, {}),
                        ownIndex |-> NoIndex, usedIndex |-> NoIndex]>>

NextBatch == \E a \in LookupAnswers(ticks[1].pageIds, ticks[1].userIds) : LookupReturns(1, a)

SpecBatch == InitBatch /\ [][NextBatch]_vars


\* ==========================================================================
\* Properties
\* ==========================================================================
IsPrefix(a, b) == Len(a) <= Len(b) /\ a = SubSeq(b, 1, Len(a))

CeilDiv(n, d) == IF n % d = 0 THEN n \div d ELSE n \div d + 1

\* The webhook.send calls of tick t, in call order.
TickCalls(t) ==
    LET own == SelectSeq(sends, LAMBDA c : c.tick = t)
    IN  [i \in 1..Len(own) |-> own[i].embeds]

\* The messages of tick t in call order, then in position within each call.
TickSent(t) == Concat(TickCalls(t))

Ids(posts) == [i \in 1..Len(posts) |-> posts[i].id]

DataIds(embeds) == [i \in 1..Len(embeds) |-> embeds[i].postId]

\* The ids the FETCH response of tick t holds undeleted and not cached when
\* FILTER came to them (an earlier undeleted occurrence in the same response
\* is cached by then), in response order.
ExpectedIds(t) ==
    LET ps == ticks[t].posts
        new(i) == /\ ~ps[i].isDeleted
                  /\ ps[i].id \notin ticks[t].cacheBefore
                  /\ \A j \in 1..(i - 1) : ps[j].id = ps[i].id => ps[j].isDeleted
        idx == SelectSeq([i \in 1..Len(ps) |-> i], new)
    IN  [k \in 1..Len(idx) |-> ps[idx[k]].id]

Ended(t) == ticks[t].pc = "done"
EndedClean(t) == Ended(t) /\ ticks[t].caught = NoError
Caught403(t) == Ended(t) /\ ticks[t].caught = HttpError(AuthRejected)
CaughtOther(t) == Ended(t) /\ ticks[t].caught # NoError /\ ~Caught403(t)

\* Every post handed to generateEmbed so far, over all ticks.
FormattedLog == Concat([t \in 1..Len(ticks) |-> ticks[t].formatted])

\* C1: over the whole process lifetime, overlapping and failing ticks
\* included, no post identifier is handed to generateEmbed more than once.
C1_FormattedAtMostOnce ==
    \A i, j \in 1..Len(FormattedLog) : FormattedLog[i] = FormattedLog[j] => i = j

\* Two overlapping ticks both fetched post 6, the first one collected it, and
\* the second one has formatted its posts (the formatting failed) without it.
C1_Witness ==
    /\ Len(ticks) = 2
    /\ ticks[2].prior = 0
    /\ ticks[1].pc = "lookup"
    /\ 6 \in Range(DataIds(ticks[1].embeds))
    /\ CaughtOther(2) /\ ticks[2].resolved
    /\ 6 \in Range(Ids(ticks[2].posts))
    /\ ticks[2].formatted = <<7>>

\* C2: once a retry of the login run() started has succeeded, run() has gone
\* on: the first poll tick exists and the interval timer is installed.
C2_RunResumesAfterRetry ==
    (\E l \in 1..Len(logins) : logins[l].root = "run" /\ logins[l].pc = "resolved")
        => (runPc = "started" /\ Len(ticks) >= 1 /\ interval = IntervalMs)

\* C3: every failed login attempt, whatever the failure, waits out the
\* 10-second backoff or has been retried; none ends in a raised error.
C3_EveryFailureRetried ==
    \A l \in 1..Len(logins) :
        logins[l].err # NoError =>
            \/ logins[l].pc = "backoff" /\ logins[l].delay = BackoffMs
            \/ \E r \in 1..Len(logins) : logins[r].parent = l

\* C4: a tick that ended without failure formatted and submitted exactly the
\* fetched posts that were undeleted and uncached when FILTER examined them,
\* each once.
C4_DeliversExactlyNewPosts ==
    \A t \in 1..Len(ticks) :
        EndedClean(t) =>
            /\ TickSent(t) = Reverse(ExpectedIds(t))
            /\ ticks[t].formatted = Reverse(ExpectedIds(t))

\* The spec's example: fetches [5,6] then [6,7] deliver 5 and 6, then only 7.
C4_Witness ==
    /\ Len(ticks) = 2
    /\ EndedClean(1) /\ EndedClean(2)
    /\ Ids(ticks[1].posts) = <<5, 6>> /\ Ids(ticks[2].posts) = <<6, 7>>
    /\ ~ticks[2].posts[1].isDeleted
    /\ Range(TickSent(1)) = {5, 6}
    /\ TickSent(2) = <<7>>

\* C5: a tick whose fetch or container lookup was rejected with 403 started
\* a login and ended having formatted nothing and submitted nothing.
C5_AuthRejectionEndsTick ==
    \A t \in 1..Len(ticks) :
        Caught403(t) =>
            /\ ticks[t].login \in 1..Len(logins)
            /\ logins[ticks[t].login].root = "poll"
            /\ ticks[t].formatted = <<>>
            /\ TickCalls(t) = <<>>
            /\ ~ticks[t].saved

\* The container lookup of a tick that had collected posts was rejected.
C5_Witness ==
    \E t \in 1..Len(ticks) :
        Caught403(t) /\ ticks[t].lookups = 1 /\ Len(ticks[t].embeds) > 1

\* Logins started by poll() rather than by a retry or by run().
PollLogins == {l \in 1..Len(logins) : logins[l].root = "poll" /\ logins[l].parent = 0}

\* C6: a tick that failed with anything but a 403 started no login and is
\* not run again; the interval timer stays installed with its period, so the
\* timer can still start the next tick.
C6_OtherFailureKeepsTimer ==
    /\ Cardinality(PollLogins) = Cardinality({t \in 1..Len(ticks) : Caught403(t)})
    /\ \A t \in 1..Len(ticks) :
          CaughtOther(t) =>
              /\ ticks[t].login = 0
              /\ interval = IntervalMs
              /\ (alive /\ Len(ticks) < MaxTicks => ENABLED TimerFire)

\* The first tick failed on a non-403 error and a later tick began after it.
C6_Witness ==
    /\ Len(ticks) = 2
    /\ CaughtOther(1)
    /\ ticks[2].prior = 1
    /\ ticks[2].pc = "lookup"

\* C7: outside development mode every tick that reached FORMAT/DISPATCH has
\* saved the cache when it ends.
C7_SavedAfterDispatch ==
    ~devMode =>
        \A t \in 1..Len(ticks) : (Ended(t) /\ ticks[t].resolved) => ticks[t].saved

\* The error a rejected webhook.send call carries.
TransportError == [kind |-> "transport", hasResponse |-> FALSE, statusCode |-> 0]

\* C8: the error of a rejected webhook.send call reaches the catch block of
\* the tick that made the call.
C8_SendErrorCaught ==
    \A i \in 1..Len(sends) :
        sends[i].st = "rejected" => ticks[sends[i].tick].caught = TransportError

\* C9: the messages a tick has submitted, in call order and position, are
\* its surviving posts in reverse fetch order: always a prefix of that
\* order, and all of it once the tick ended without failure.
C9_ReverseFetchOrder ==
    \A t \in 1..Len(ticks) :
        /\ IsPrefix(TickSent(t), Reverse(ExpectedIds(t)))
        /\ EndedClean(t) => TickSent(t) = Reverse(ExpectedIds(t))

\* A tick with more than one call: the first message of the first call is the
\* last surviving post of the response.
C9_Witness ==
    \E t \in 1..Len(ticks) :
        /\ EndedClean(t)
        /\ Len(TickCalls(t)) = 2
        /\ Len(ExpectedIds(t)) > ChunkSize
        /\ TickCalls(t)[1][1] = ExpectedIds(t)[Len(ExpectedIds(t))]
        /\ TickCalls(t)[1][1] # ExpectedIds(t)[1]

\* C10: for N surviving posts dispatch makes ceil(N/10) calls, each of 1 to
\* 10 messages, whose concatenation is the full ordered message list.
C10_Batching ==
    \A t \in 1..Len(ticks) :
        EndedClean(t) =>
            LET n == Len(ticks[t].embeds)
                calls == TickCalls(t)
            IN  /\ Len(calls) = CeilDiv(n, ChunkSize)
                /\ \A k \in 1..Len(calls) : Len(calls[k]) \in 1..ChunkSize
                /\ Concat(calls) = Reverse(DataIds(ticks[t].embeds))

\* 95 surviving posts went out in ten calls, the last one of five messages.
C10_Witness ==
    /\ EndedClean(1)
    /\ Len(ticks[1].embeds) = 95
    /\ Len(TickCalls(1)) = 10
    /\ Len(TickCalls(1)[10]) = 5


\* C11: with a required configuration value missing, no login is ever
\* attempted and no poll tick ever runs.
C11_MissingConfigIsFatal ==
    (\E k \in ConfigKeys : ~config[k]) => (logins = <<>> /\ ticks = <<>>)


\* C12: in dev mode the persisted dedup storage is neither read nor written:
\* before the first tick the cache is empty whatever the storage holds, and
\* no step of any tick changes the storage.
C12_DevModeLeavesStorage ==
    /\ [](devMode /\ ticks = <<>> => cache = {})
    /\ [][devMode => disk' = disk]_vars

\* In dev mode, with post 6 in the storage, a tick has formatted post 6 again
\* and has run through saveCache().
C12_Witness ==
    /\ devMode /\ disk = [present |-> TRUE, ids |-> {6}]
    /\ \E t \in 1..Len(ticks) :
          EndedClean(t) /\ ticks[t].saved /\ 6 \in Range(ticks[t].formatted)

\* The ids the response of tick t carries only with the deleted flag.
DeletedIds(t) ==
    LET ps == ticks[t].posts
    IN  {ps[i].id : i \in {j \in 1..Len(ps) : ps[j].isDeleted}}
            \ {ps[i].id : i \in {j \in 1..Len(ps) : ~ps[j].isDeleted}}

\* C13: a post fetched with the deleted flag is not processed further in that
\* tick: the tick does not add it to the cache, takes no page id or user id
\* from it for the lookup, and neither formats nor submits it.
C13_DeletedPostsSkipped ==
    \A t \in 1..Len(ticks) : \A d \in DeletedIds(t) :
        /\ d \in cache =>
              \/ d \in ticks[t].cacheBefore
              \/ \E u \in 1..Len(ticks) : u # t /\ d \in Range(ExpectedIds(u))
        /\ d \notin ticks[t].pageIds
        /\ WallUser(d) \notin ticks[t].userIds
        /\ d \notin Range(DataIds(ticks[t].embeds))
        /\ d \notin Range(ticks[t].formatted)
        /\ d \notin Range(TickSent(t))

\* A tick fetched post 6 and wall post 4 deleted and post 7 not, and ended
\* having delivered 7 alone; neither deleted post is in the cache.
C13_Witness ==
    \E t \in 1..Len(ticks) :
        /\ EndedClean(t)
        /\ DeletedIds(t) = {4, 6}
        /\ ticks[t].formatted = <<7>> /\ TickSent(t) = <<7>>
        /\ cache \cap {4, 6} = {}

\* C14: trimEllip never returns a string longer than maxLength, for every
\* text, every maxLength >= 0 and every marker, a marker longer than
\* maxLength included.
C14_NeverLongerThanMax ==
    (pure.fn = "trimEllip" /\ pure.done) => Len(pure.result) <= pure.length

\* Index of the first paragraph block lacking its run list, Len + 1 if none.
FirstBadBlock(blocks) ==
    LET bad == {i \in 1..Len(blocks) :
                    blocks[i].type = "paragraph" /\ ~blocks[i].hasContent}
    IN  IF bad = {} THEN Len(blocks) + 1
        ELSE CHOOSE i \in bad : \A j \in bad : i <= j

\* The text of the paragraph blocks before index n: per paragraph with any
\* text, its run texts and a newline.
TextBefore(blocks, n) ==
    LET runTexts(runs) ==
            Concat([i \in 1..Len(runs) |->
                      IF runs[i].hasText THEN runs[i].text ELSE <<>>])
        line(b) == IF b.type = "paragraph" /\ runTexts(b.content) # <<>>
                   THEN runTexts(b.content) \o <<"\n">> ELSE <<>>
    IN  Concat([i \in 1..(n - 1) |-> line(blocks[i])])

\* The inputs the claim calls malformed: unparsable text, a document without
\* a block list, a document with a paragraph block lacking its run list.
Malformed(adf) ==
    \/ ~adf.parses
    \/ ~adf.hasContent
    \/ FirstBadBlock(adf.content) <= Len(adf.content)

\* C15 as stated: for every malformed input adfToText raises no error and
\* returns the empty string.
C15_MalformedYieldsEmpty ==
    (pure.fn = "adfToText" /\ pure.done /\ Malformed(pure.adf))
        => (~pure.raised /\ pure.result = <<>>)

\* C15 amended: adfToText raises no error for any input; it returns the
\* empty string for unparsable text and for a document without a block list,
\* and otherwise the text of the paragraphs before the first paragraph block
\* that lacks its run list (of all paragraphs if there is none).
C15_FailsSoft ==
    (pure.fn = "adfToText" /\ pure.done) =>
        /\ ~pure.raised
        /\ pure.result =
              IF ~pure.adf.parses \/ ~pure.adf.hasContent THEN <<>>
              ELSE TextBefore(pure.adf.content, FirstBadBlock(pure.adf.content))

\* Two well-formed paragraphs followed by a paragraph without its run list:
\* the text of the first two is returned.
C15_Witness ==
    /\ pure.fn = "adfToText" /\ pure.done
    /\ pure.adf = Doc(<<Block("paragraph", <<Run(<<"a">>)>>),
                       Block("paragraph", <<Run(<<"b">>), NoTextRun, Run(<<"a", " ">>)>>),
                       BlockWithoutContent("paragraph")>>)
    /\ pure.result = <<"a", "\n", "b", "a", " ", "\n">>

\* C16: no fetch is issued, no tick runs and the interval timer is not
\* installed before the login run() awaits has resolved, that is before an
\* authentication attempt has succeeded.
C16_NoFetchBeforeLogin ==
    (ticks # <<>> \/ interval # 0 \/ runPc = "started") =>
        \E l \in 1..Len(logins) :
            /\ logins[l].root = "run" /\ logins[l].parent = 0
            /\ logins[l].pc = "resolved"
            /\ cookieJar # 0

\* The constructor and the login succeeded: the first tick's fetch is in
\* flight and the timer is installed.
C16_Witness ==
    /\ runPc = "started"
    /\ Len(ticks) = 1 /\ ticks[1].pc = "fetch"
    /\ interval = IntervalMs
    /\ Len(logins) = 1 /\ logins[1].pc = "resolved"

\* The fetch of tick t was answered.
Fetched(t) == ticks[t].posts # <<>>

\* The posts of ExpectedIds(t) of container type ct.
ExpectedOfType(t, ct) ==
    {id \in Range(ExpectedIds(t)) : ContainerTypeOf(id) = ct}

\* The new wall posts of tick t whose wall has no entry in the wallOwners
\* list the response carries.
OwnerlessWalls(t) ==
    {id \in ExpectedOfType(t, "WALL") :
        /\ ticks[t].wallOwners.present
        /\ \A i \in 1..Len(ticks[t].wallOwners.list) :
              ticks[t].wallOwners.list[i].wallContainerId # id}

\* FETCH and FILTER of tick t have completed.
Filtered(t) == Fetched(t) /\ OwnerlessWalls(t) = {}

\* C17: a tick whose FETCH and FILTER completed has issued exactly one
\* container lookup, also when both id sets are empty, and the lookup asked
\* for exactly the container ids of the newly seen ARTICLE_COMMENT posts and
\* the owner ids resolved for the newly seen WALL posts; any other tick has
\* issued none.
C17_OneLookupPerTick ==
    \A t \in 1..Len(ticks) :
        IF Filtered(t)
        THEN /\ ticks[t].lookups = 1
             /\ ticks[t].requested.stablePageIds = ExpectedOfType(t, "ARTICLE_COMMENT")
             /\ ticks[t].requested.userIds =
                   IF ticks[t].wallOwners.present
                   THEN {WallUser(id) : id \in ExpectedOfType(t, "WALL")}
                   ELSE {}
        ELSE ticks[t].lookups = 0

\* A tick that found every fetched post in the cache issued its lookup with
\* both id lists empty and ended without delivering anything.
C17_Witness ==
    \E t \in 1..Len(ticks) :
        /\ EndedClean(t) /\ Fetched(t)
        /\ ticks[t].embeds = <<>>
        /\ ticks[t].lookups = 1 /\ ticks[t].resolved
        /\ ticks[t].requested = NoRequest

\* FILTER of tick t was aborted by a wall post without owner entry.
Aborted(t) == Fetched(t) /\ OwnerlessWalls(t) # {}

\* Position in ExpectedIds(t) of the post that aborted FILTER of tick t.
AbortIndex(t) ==
    LET e == ExpectedIds(t)
        hits == {i \in 1..Len(e) : e[i] \in OwnerlessWalls(t)}
    IN  CHOOSE i \in hits : \A j \in hits : i <= j

AbortPost(t) == ExpectedIds(t)[AbortIndex(t)]

\* The aborting post and the new posts before it; the new posts after it.
Doomed(t) == {ExpectedIds(t)[i] : i \in 1..AbortIndex(t)}
Spared(t) == {ExpectedIds(t)[i] : i \in (AbortIndex(t) + 1)..Len(ExpectedIds(t))}

\* C18: when FILTER aborts at a wall post p without owner entry, p and the
\* new posts before p are in the cache and are never formatted or submitted,
\* in this tick or a later one; the posts after p are not marked by this
\* tick, and a later tick that fetches them unseen and ends without failure
\* delivers them; p aborts no second tick.
C18_AbortLosesPrefixOnly ==
    /\ [](\A t \in 1..Len(ticks) :
            Aborted(t) =>
                /\ ticks[t].caught = TypeError /\ ticks[t].pc = "done"
                /\ Doomed(t) \subseteq cache
                /\ Doomed(t) \cap Range(FormattedLog) = {}
                /\ \A i \in 1..Len(sends) : Doomed(t) \cap Range(sends[i].embeds) = {}
                /\ \A u \in 1..Len(ticks) :
                      /\ (EndedClean(u) /\ Fetched(u)) =>
                            Spared(t) \cap Range(ExpectedIds(u)) \subseteq Range(TickSent(u))
                      /\ (u # t /\ Aborted(u)) => AbortPost(u) # AbortPost(t))
    /\ [][\A t \in 1..Len(ticks) :
            (ticks[t].pc = "fetch" /\ Aborted(t)') =>
                cache' = cache \cup Doomed(t)']_vars

\* The first tick was aborted at wall post 10, after it had marked posts 1
\* to 9; the second tick fetched the same posts with every owner entry and
\* delivered posts 11 and 12 only.
C18_Witness ==
    /\ Len(ticks) = 2
    /\ Aborted(1) /\ AbortPost(1) = 10
    /\ Doomed(1) = 1..10 /\ Spared(1) = {11, 12}
    /\ EndedClean(2) /\ Ids(ticks[2].posts) = Long
    /\ ticks[2].formatted = <<12, 11>> /\ TickSent(2) = <<12, 11>>

\* C19: every tick formats its posts with the container index its own
\* lookup returned, also when ticks overlap: no other tick's answer is
\* assigned between the tick's assignment and its reads.
C19_OwnIndexUsed ==
    \A t \in 1..Len(ticks) :
        ticks[t].resolved =>
            /\ ticks[t].lookups = 1
            /\ ticks[t].usedIndex = ticks[t].ownIndex

\* Two ticks were in flight together; the lookup of the second was answered
\* first, each with a different index, and both formatted posts.
C19_Witness ==
    /\ Len(ticks) = 2 /\ ticks[2].prior = 0
    /\ ticks[1].resolved /\ ticks[2].resolved
    /\ ticks[1].ownIndex # ticks[2].ownIndex
    /\ containerCache = ticks[1].ownIndex
    /\ ticks[1].formatted # <<>> /\ ticks[2].formatted # <<>>
    /\ ticks[2].usedIndex = ticks[2].ownIndex

\* The fandomLogin() invocations that have a request in flight or a retry
\* timer pending.
ActiveLogins == {l \in 1..Len(logins) : logins[l].pc \in {"post", "whoami", "backoff"}}

\* C20: at most one authentication retry loop is active at any time; a
\* further tick rejected with 403 starts no additional concurrent loop.
C20_SingleLoginLoop == Cardinality(ActiveLogins) <= 1

====
